---------------------------- MODULE Spec2Model ----------------------------
(***************************************************************************)
(* A model of src/main.py: the upload endpoint, the websocket connection  *)
(* handler ws_contradictions and the streaming run stream_contradictions. *)
(*                                                                         *)
(* The program runs on one asyncio event loop, so a coroutine runs alone   *)
(* from one await to the next.  Every action below is one such stretch of  *)
(* a handler; the per-sentence head of the outer loop is a step of its own *)
(* (it touches only the run's locals).                                     *)
(*                                                                         *)
(* Texts are sequences of one-character strings.  Similarities and         *)
(* confidences are fixed-point numbers in units of 1/10000.                *)
(***************************************************************************)
EXTENDS Integers, Sequences, FiniteSets, TLC

VARIABLES SESSIONS, WEBSOCKETS, nli_pipe, ctor_calls,
          hpc, sid, open, loc, sent, queries

vars == <<SESSIONS, WEBSOCKETS, nli_pipe, ctor_calls,
          hpc, sid, open, loc, sent, queries>>

---------------------------------------------------------------------------
(* Bounds of the model                                                     *)

\* connection handlers (channels) that may be opened
NumChans == 2
\* upload requests served
MaxUploads == 1
\* the uploads in the specification of two sessions
MaxSessions == 2
\* the fragments of a text in the specification of the splitter
MaxFrags == 5
\* sentences of the long document of the catalogue
LongDocSents == 50

---------------------------------------------------------------------------
(* Program constants                                                       *)

top_k_Six == 5 + 1
top_k == 5
min_cos == 1500
MinSentLen == 4
ProgressEvery == 50
ContraMinConf == 5500
HighMinScore == 4500
HighMinConf == 9000
MediumMinConf == 7500
\* max_df = 0.9 as a fraction MaxDfNum / MaxDfDen
MaxDfNum == 9
MaxDfDen == 10
\* 1.0 on the fixed-point scale
Unit == 100 * 100

---------------------------------------------------------------------------
(* Characters                                                              *)

UpperSeq == <<"A","B","C","D","E","F","G","H","I","J","K","L","M",
              "N","O","P","Q","R","S","T","U","V","W","X","Y","Z">>
LowerSeq == <<"a","b","c","d","e","f","g","h","i","j","k","l","m",
              "n","o","p","q","r","s","t","u","v","w","x","y","z">>
DigitSeq == <<"0","1","2","3","4","5","6","7","8","9">>

Range(s) == {s[i] : i \in DOMAIN s}

UpperSet == Range(UpperSeq)
LowerSet == Range(LowerSeq)
DigitSet == Range(DigitSeq)
SpaceSet == {" ", "\n", "\r", "\t"}
TerminalSet == {".", "!", "?"}

IsUpper(ch) == ch \in UpperSet
IsLower(ch) == ch \in LowerSet
IsDigit(ch) == ch \in DigitSet
\* \s of the regular expression, str.strip()
IsSpace(ch) == ch \in SpaceSet
\* [.!?]
IsTerminal(ch) == ch \in TerminalSet
\* [A-Z0-9(]
IsBoundaryStart(ch) == IsUpper(ch) \/ IsDigit(ch) \/ ch = "("
\* \w of the vectorizer's token pattern
IsWordChar(ch) == IsUpper(ch) \/ IsLower(ch) \/ IsDigit(ch) \/ ch = "_"

\* str.lower() on one character
LowerChar(ch) ==
    IF IsUpper(ch) THEN LowerSeq[CHOOSE i \in DOMAIN UpperSeq : UpperSeq[i] = ch]
    ELSE ch

---------------------------------------------------------------------------
(* split_sentences                                                         *)

\* text.replace("\r", " ").replace("\n", " ")
ReplaceBreaks(text) ==
    [i \in DOMAIN text |-> IF text[i] \in {"\r", "\n"} THEN " " ELSE text[i]]

RECURSIVE LStrip(_)
LStrip(s) == IF s # <<>> /\ IsSpace(Head(s)) THEN LStrip(Tail(s)) ELSE s

RECURSIVE RStrip(_)
RStrip(s) ==
    IF s # <<>> /\ IsSpace(s[Len(s)]) THEN RStrip(SubSeq(s, 1, Len(s) - 1)) ELSE s

\* str.strip()
Strip(s) == RStrip(LStrip(s))

\* first position >= i of t that holds no whitespace (Len(t) + 1 if none)
RECURSIVE RunEnd(_, _)
RunEnd(t, i) == IF i <= Len(t) /\ IsSpace(t[i]) THEN RunEnd(t, i + 1) ELSE i

\* _sent_splitter matches at i: (?<=[.!?])\s+(?=[A-Z0-9(])
SplitterMatchesAt(t, i) ==
    /\ i > 1
    /\ i <= Len(t)
    /\ IsTerminal(t[i - 1])
    /\ IsSpace(t[i])
    /\ RunEnd(t, i) <= Len(t)
    /\ IsBoundaryStart(t[RunEnd(t, i)])

\* _sent_splitter.split(t): the pieces between the matches.  A piece starts
\* at 1 or where the whitespace of a match ends, and ends before the next
\* match or with the text.
RegexSplit(t) ==
    LET Matches == {i \in 1 .. Len(t) : SplitterMatchesAt(t, i)}
        Starts  == {1} \cup {RunEnd(t, i) : i \in Matches}
        EndOf(p) == IF \E i \in Matches : i >= p
                    THEN (CHOOSE i \in Matches :
                             i >= p /\ \A k \in Matches : k >= p => i <= k) - 1
                    ELSE Len(t)
        Nth(n)  == CHOOSE p \in Starts : Cardinality({q \in Starts : q < p}) = n - 1
    IN  [n \in 1 .. Cardinality(Starts) |-> SubSeq(t, Nth(n), EndOf(Nth(n)))]

\* KeepPiece with pieces of length 3 kept
KeepPiece_Three(p) == Len(Strip(p)) >= MinSentLen - 1

\* line 29: len(p.strip()) >= 4
KeepPiece(p) == Len(Strip(p)) >= MinSentLen

split_sentences(text) ==
    LET parts == RegexSplit(Strip(ReplaceBreaks(text)))
        kept  == SelectSeq(parts, KeepPiece)
    IN  [i \in DOMAIN kept |-> Strip(kept[i])]


---------------------------------------------------------------------------
(* TfidfVectorizer(stop_words="english", max_df=0.9).fit_transform and     *)
(* cosine_similarity.  The library is outside the repository: its result   *)
(* is modelled by what decides the run, namely whether a vocabulary is     *)
(* left and which pairs of sentences can have a positive cosine.           *)

\* s.lower()
LowerText(s) == [i \in DOMAIN s |-> LowerChar(s[i])]

\* token_pattern (?u)\b\w\w+\b: the maximal runs of two or more word
\* characters; cur is the run being read
RECURSIVE TokensFrom(_, _, _)
TokensFrom(s, i, cur) ==
    LET done == IF Len(cur) >= 2 THEN {cur} ELSE {}
    IN  IF i > Len(s) THEN done
        ELSE IF IsWordChar(s[i]) THEN TokensFrom(s, i + 1, Append(cur, s[i]))
        ELSE done \cup TokensFrom(s, i + 1, <<>>)

\* the entries of sklearn's ENGLISH_STOP_WORDS that occur in the catalogue
\* of texts below
StopWords == { <<"i","t">>, <<"i","s">> }

Terms(s) == TokensFrom(LowerText(s), 1, <<>>) \ StopWords

\* the terms left after max_df pruning: a term of document frequency
\* df > max_df * n_doc is dropped
Vocabulary(corpus) ==
    LET T == [i \in DOMAIN corpus |-> Terms(corpus[i])]
        DocFreq(t) == Cardinality({i \in DOMAIN corpus : t \in T[i]})
    IN  {t \in UNION Range(T) : MaxDfDen * DocFreq(t) <= MaxDfNum * Len(corpus)}

\* fit_transform raises ValueError when no term is left
FitFails(corpus) == Vocabulary(corpus) = {}

\* the sentences (numbered from 0) whose vector is not zero
NonZero(corpus) ==
    {i \in 0 .. (Len(corpus) - 1) : Terms(corpus[i + 1]) \cap Vocabulary(corpus) # {}}

\* the pairs <<i, j>>, i < j, of sentences whose vectors share a term
SharedPairs(corpus) ==
    LET Ix  == 0 .. (Len(corpus) - 1)
        voc == Vocabulary(corpus)
        vt  == [i \in Ix |-> Terms(corpus[i + 1]) \cap voc]
    IN  {p \in Ix \X Ix : p[1] < p[2] /\ vt[p[1]] \cap vt[p[2]] # {}}

\* The cosine matrices the library can return for a corpus of N sentences,
\* drawn from vals for the pairs that share a term: a vector without terms
\* is zero (cosine 0 with everything, itself included), two vectors without
\* a common term are orthogonal, a non-zero vector has cosine 1 with itself,
\* and the matrix is symmetric.
SimMatrices(N, nonzero, shared, vals) ==
    LET Ix    == 0 .. (N - 1)
        Lo(p) == IF p[1] < p[2] THEN p ELSE <<p[2], p[1]>>
    IN  { [p \in Ix \X Ix |->
              IF p[1] = p[2] THEN (IF p[1] \in nonzero THEN Unit ELSE 0)
              ELSE IF Lo(p) \in shared THEN a[Lo(p)]
              ELSE 0] : a \in [shared -> vals] }

---------------------------------------------------------------------------
(* The catalogue of uploads                                                *)

TxtItIs    == <<"I","t"," ","i","s",".">>
TxtIsIt    == <<"I","s"," ","i","t",".">>
TxtOkItIs  == <<"O","k","."," ">> \o TxtItIs
TxtSkyBlue == <<"S","k","y"," ","b","l","u","e",".">>
TxtSkyRed  == <<"S","k","y"," ","r","e","d",".">>
TxtRedCats == <<"R","e","d"," ","c","a","t","s",".">>
TxtCatsNap == <<"C","a","t","s"," ","n","a","p",".">>

RECURSIVE Repeat(_, _)
Repeat(s, n) == IF n = 0 THEN <<>> ELSE s \o <<"\n">> \o Repeat(s, n - 1)

Doc(name, text) == [name |-> name, text |-> text]

\* no file at all, and a single empty file: no sentence
DsNone  == <<>>
DsEmpty == << Doc("a.txt", <<>>) >>
\* one sentence: "Ok." is shorter than MinSentLen
DsOne   == << Doc("a.txt", TxtOkItIs) >>
\* two sentences of stop words only: no vocabulary
DsStop  == << Doc("a.txt", TxtItIs), Doc("b.txt", TxtIsIt) >>
\* two sentences of one document
DsSolo  == << Doc("a.txt", TxtSkyBlue \o <<"\r","\n">> \o TxtCatsNap) >>
\* three sentences in two documents of the same name; "sky" is shared by
\* one sentence of each document, "red" by the two of the second
DsPair  == << Doc("a.txt", TxtSkyBlue),
              Doc("a.txt", TxtSkyRed \o <<" ">> \o TxtRedCats) >>
\* LongDocSents equal sentences in one document and one sentence in another
DsLong  == << Doc("a.txt", Repeat(TxtCatsNap, LongDocSents)),
              Doc("b.txt", TxtSkyBlue) >>

\* three sentences in two documents that share no name and no sentence
\* with DsPair; "cats" is shared by one sentence of each document
DsOther == << Doc("c.txt", TxtCatsNap),
              Doc("d.txt", TxtRedCats \o <<" ">> \o TxtSkyRed) >>

\* A sentence with six candidates in another document, each sharing one
\* term with it, and a sentence of its own document sharing a seventh.
TxtFanHead == <<"A","a","a"," ","b","b","b"," ","c","c","c"," ","d","d","d"," ",
                "e","e","e"," ","f","f","f"," ","g","g","g",".",
                " ","G","g","g",".">>
TxtFanTail == <<"A","a","a","."," ","B","b","b","."," ","C","c","c","."," ",
                "D","d","d","."," ","E","e","e","."," ","F","f","f",".">>
DsFan == << Doc("a.txt", TxtFanHead), Doc("b.txt", TxtFanTail) >>

\* A sentence with two candidates in another document, one term shared
\* with each.
DsDuo == << Doc("a.txt", <<"A","a","a"," ","b","b","b",".">>),
            Doc("b.txt", <<"A","a","a","."," ","B","b","b",".">>) >>

Catalogue == {DsNone, DsEmpty, DsOne, DsStop, DsSolo, DsPair, DsLong}

\* Texts put together from a few fragments: a sentence of length 4, one of
\* length 3, one that starts in lower case, a blank and a line break.
Fragments == { <<"A","b","b",".">>, <<"A","b",".">>, <<"b","b","b",".">>,
               <<" ">>, <<"\n">> }

RECURSIVE Concat(_)
Concat(fs) == IF fs = <<>> THEN <<>> ELSE Head(fs) \o Concat(Tail(fs))

SplitTexts ==
    {Concat(fs) : fs \in UNION {[1 .. n -> Fragments] : n \in 0 .. MaxFrags}}

\* one file with each such text
SplitDocSets == {<< Doc("a.txt", t) >> : t \in SplitTexts}

---------------------------------------------------------------------------
(* State                                                                   *)
(*                                                                         *)
(* SESSIONS    session id -> [docs]                (main.py:22)            *)
(* WEBSOCKETS  session id -> channel               (main.py:23)            *)
(* nli_pipe    0 (None) or the number of the constructor call that built   *)
(*             the shared pipeline                 (main.py:51)            *)
(* ctor_calls  calls of pipeline(...) made so far                          *)
(* hpc[c]      where the handler of channel c stands                       *)
(* sid[c]      the session_id parameter of that handler, 0 when missing    *)
(* open[c]     whether the connection of channel c is still up             *)
(* loc[c]      the locals of the run started by the handler of c           *)
(* sent[c]     the send_json calls made on channel c, in order; each entry *)
(*             holds the JSON event (ev) and, as history, the handler      *)
(*             whose code made the call (run), whether the connection was  *)
(*             up (dlv) and the sentence pair it is about (pair)           *)
(* queries[c]  the oracle calls made by the run of handler c, in order:    *)
(*             premise s1 and hypothesis s2 (sentence numbers), the result *)
(*             (res) and, as history, the candidate pair it belongs to     *)

Chans == 1 .. NumChans
None == 0

\* session ids a client may present: none, a token upload returns, and one
\* that upload never returns
Ids == 0 .. (MaxUploads + 1)

NoLoc == [ws |-> None, names |-> <<>>, corpus |-> <<>>, sent_idx |-> <<>>,
          X |-> <<>>, nli |-> None, total |-> 0, idx |-> 0, seen |-> {},
          checked |-> 0, cid |-> 0, score |-> 0,
          out1 |-> <<>>, out2 |-> <<>>, is_contra |-> FALSE,
          max_conf |-> 0, sev |-> ""]

Init ==
    /\ SESSIONS = <<>>
    /\ WEBSOCKETS = <<>>
    /\ nli_pipe = None
    /\ ctor_calls = 0
    /\ hpc = [c \in Chans |-> "idle"]
    /\ sid = [c \in Chans |-> 0]
    /\ open = [c \in Chans |-> FALSE]
    /\ loc = [c \in Chans |-> NoLoc]
    /\ sent = [c \in Chans |-> <<>>]
    /\ queries = [c \in Chans |-> <<>>]

---------------------------------------------------------------------------
(* Dictionaries                                                            *)

\* a look-up that gives the first value of the dictionary, whatever the key
Get_First(d, k) ==
    IF DOMAIN d = {} THEN None
    ELSE d[CHOOSE x \in DOMAIN d : \A y \in DOMAIN d : x <= y]

\* d.get(k)
Get(d, k) == IF k \in DOMAIN d THEN d[k] ELSE None

\* d[k] = v
Put(d, k, v) == [x \in DOMAIN d \cup {k} |-> IF x = k THEN v ELSE d[x]]

\* d.pop(k, None)
Pop(d, k) == [x \in DOMAIN d \ {k} |-> d[x]]

---------------------------------------------------------------------------
(* Events                                                                  *)

EvInfo == [type |-> "info", message |-> "Starting analysis..."]
EvInvalid == [type |-> "error", message |-> "Invalid or missing session_id"]
EvNliError == [type |-> "error", message |-> "NLI error"]
EvDone == [type |-> "done"]
EvProgress(processed, total) ==
    [type |-> "progress", processed |-> processed, total |-> total]

\* round(max_conf * 100, 1), in tenths of a percent
RoundConf(max_conf) == (max_conf + 5) \div 10
\* round(score, 3), in thousandths
RoundSim(score) == (score + 5) \div 10

EvContradiction(l, dj) ==
    [type |-> "contradiction",
     doc1 |-> l.names[l.sent_idx[l.idx + 1][1] + 1],
     doc2 |-> l.names[dj + 1],
     sentence1 |-> l.corpus[l.idx + 1],
     sentence2 |-> l.corpus[l.cid + 1],
     severity |-> l.sev,
     confidence |-> RoundConf(l.max_conf),
     similarity |-> RoundSim(l.score)]

NoPair == <<>>

\* ws.send_json(data) on channel ch, called by the code of handler c
SendJson(s, ch, c, data, pair) ==
    [s EXCEPT ![ch] = Append(@, [ev |-> data, run |-> c, dlv |-> open[ch],
                                 pair |-> pair])]

\* safe_send that tries once more when the connection is closed
safe_send_Retry(s, ch, c, data, pair) ==
    IF open[ch] THEN SendJson(s, ch, c, data, pair)
    ELSE SendJson(SendJson(s, ch, c, data, pair), ch, c, data, pair)

\* safe_send: the call is made; what it raises on a closed connection is
\* swallowed
safe_send(s, ch, c, data, pair) == SendJson(s, ch, c, data, pair)

---------------------------------------------------------------------------
(* upload                                                                  *)

\* a token generator that repeats itself
FreshToken_Reuse == 0 + 1

\* uuid.uuid4(): a token no session has yet
FreshToken == Cardinality(DOMAIN SESSIONS) + 1

Upload(docsets, most) ==
    /\ Cardinality(DOMAIN SESSIONS) < most
    /\ \E docs \in docsets :
          SESSIONS' = Put(SESSIONS, FreshToken, [docs |-> docs])
    /\ UNCHANGED <<WEBSOCKETS, nli_pipe, ctor_calls, hpc, sid, open, loc,
                   sent, queries>>

---------------------------------------------------------------------------
(* ws_contradictions                                                       *)

\* where a handler that has ended stands: returned at line 146, left line
\* 145 by an exception, returned at the end, left by an exception of the run
Ended == {"rejected", "reject_raised", "returned", "raised"}

\* a client opens channel c with session_id = id; the handler is suspended
\* in ws.accept()
Connect(c, ids) ==
    /\ hpc[c] = "idle"
    /\ \E id \in ids : sid' = [sid EXCEPT ![c] = id]
    /\ hpc' = [hpc EXCEPT ![c] = "accept"]
    /\ open' = [open EXCEPT ![c] = TRUE]
    /\ UNCHANGED <<SESSIONS, WEBSOCKETS, nli_pipe, ctor_calls, loc, sent,
                   queries>>

\* the client goes away while the handler is between two awaits after the
\* handshake
Disconnect(c) ==
    /\ hpc[c] \notin {"idle", "accept"} \cup Ended
    /\ open[c]
    /\ open' = [open EXCEPT ![c] = FALSE]
    /\ UNCHANGED <<SESSIONS, WEBSOCKETS, nli_pipe, ctor_calls, hpc, sid, loc,
                   sent, queries>>

\* InvalidSession without the look-up in SESSIONS
InvalidSession_NoLookup(id) == id = 0

\* not session_id or session_id not in SESSIONS
InvalidSession(id) == id = 0 \/ id \notin DOMAIN SESSIONS

\* after ws.accept(): the session check, then either the error event or
\* the binding and the info event
Accepted(c) ==
    /\ hpc[c] = "accept"
    /\ IF InvalidSession(sid[c])
       THEN /\ sent' = SendJson(sent, c, c, EvInvalid, NoPair)
            /\ hpc' = [hpc EXCEPT ![c] = "err_send"]
            /\ UNCHANGED WEBSOCKETS
       ELSE /\ WEBSOCKETS' = Put(WEBSOCKETS, sid[c], c)
            /\ sent' = safe_send(sent, c, c, EvInfo, NoPair)
            /\ hpc' = [hpc EXCEPT ![c] = "info"]
    /\ UNCHANGED <<SESSIONS, nli_pipe, ctor_calls, sid, open, loc, queries>>

\* after the error event: ws.close(), which raises when the client is gone
ErrSent(c) ==
    /\ hpc[c] = "err_send"
    /\ hpc' = [hpc EXCEPT ![c] = IF open[c] THEN "err_close" ELSE "reject_raised"]
    /\ open' = [open EXCEPT ![c] = FALSE]
    /\ UNCHANGED <<SESSIONS, WEBSOCKETS, nli_pipe, ctor_calls, sid, loc, sent,
                   queries>>

\* after ws.close(): return
ErrClosed(c) ==
    /\ hpc[c] = "err_close"
    /\ hpc' = [hpc EXCEPT ![c] = "rejected"]
    /\ UNCHANGED <<SESSIONS, WEBSOCKETS, nli_pipe, ctor_calls, sid, open, loc,
                   sent, queries>>

\* Unbind without the identity test
Unbind_Always(d, id, c) == Pop(d, id)

\* Unbind left out
Unbind_Never(d, id, c) == d

\* finally: if WEBSOCKETS.get(session_id) is ws: WEBSOCKETS.pop(session_id, None)
Unbind(d, id, c) == IF Get(d, id) = c THEN Pop(d, id) ELSE d

\* The handler of c ends, how == "returned" or "raised": the finally block
\* runs, the frame of the run is gone and the server drops the connection.
Teardown(c, how) ==
    /\ WEBSOCKETS' = Unbind(WEBSOCKETS, sid[c], c)
    /\ hpc' = [hpc EXCEPT ![c] = how]
    /\ loc' = [loc EXCEPT ![c] = NoLoc]
    /\ open' = [open EXCEPT ![c] = FALSE]

\* except WebSocketDisconnect: pass; any other exception leaves the handler
HandlerOutcome(exc) == IF exc = "WebSocketDisconnect" THEN "returned" ELSE "raised"

---------------------------------------------------------------------------
(* stream_contradictions                                                   *)

\* doc_sents, corpus and sent_idx of lines 68-72
DocSents(docs) ==
    [i \in DOMAIN docs |-> [name |-> docs[i].name,
                            sents |-> split_sentences(docs[i].text)]]

RECURSIVE Flatten(_, _)
Flatten(doc_sents, i) ==
    IF i > Len(doc_sents) THEN <<>>
    ELSE [j \in DOMAIN doc_sents[i].sents |->
             [s |-> doc_sents[i].sents[j], at |-> <<i - 1, j - 1>>]]
         \o Flatten(doc_sents, i + 1)

\* What lines 67-79 compute from the documents of a session: the names,
\* the corpus, sent_idx, whether fit_transform raises, and what decides
\* the cosines.
RunData(docs) ==
    LET doc_sents == DocSents(docs)
        flat == Flatten(doc_sents, 1)
        corpus == [i \in DOMAIN flat |-> flat[i].s]
    IN  [names |-> [i \in DOMAIN doc_sents |-> doc_sents[i].name],
         corpus |-> corpus,
         sent_idx |-> [i \in DOMAIN flat |-> flat[i].at],
         fit_fails |-> FitFails(corpus),
         nonzero |-> NonZero(corpus),
         shared |-> SharedPairs(corpus)]

\* RunData of every upload of the catalogue, computed once
Lexicon ==
    [docs \in Catalogue \cup {DsOther, DsFan, DsDuo} \cup SplitDocSets |-> RunData(docs)]

\* the locals of a run after lines 64-72
RunLocals(ws, data) ==
    [NoLoc EXCEPT !.ws = ws, !.names = data.names, !.corpus = data.corpus,
                  !.sent_idx = data.sent_idx]

\* get_nli without the test of _nli_pipe: the constructor's result is
\* stored at every call
NliAfter_NoCheck(pipe, calls, built) ==
    IF built THEN calls + 1 ELSE pipe

\* get_nli: the value of _nli_pipe after the call, given whether a
\* constructor call made now succeeds
NliAfter(pipe, calls, built) ==
    IF pipe # None THEN pipe ELSE IF built THEN calls + 1 ELSE None

\* the document index of sentence j of the run with locals l
DocOf(l, j) == l.sent_idx[j + 1][1]

\* CrossDoc without the comparison of document indices (line 93)
CrossDoc_SelfOnly(l, j) == j # l.idx

\* lines 90 and 93: candidate j is neither the sentence itself nor a
\* sentence of its document
CrossDoc(l, j) == j # l.idx /\ DocOf(l, j) # DocOf(l, l.idx)

\* the candidates of the current sentence not yet visited, and among them
\* those that cand_ids = sims.argsort()[::-1] can give next: the ones of
\* largest similarity (the order among equal similarities is the sort's)
\* NextCands without the sort
NextCands_Any(l) == {j \in 0 .. (l.total - 1) : j \notin l.seen /\ CrossDoc(l, j)}
Unvisited(l) == {j \in 0 .. (l.total - 1) : j \notin l.seen /\ CrossDoc(l, j)}
NextCands(l) ==
    {j \in Unvisited(l) : \A k \in Unvisited(l) : l.X[<<l.idx, k>>] <= l.X[<<l.idx, j>>]}

\* line 119
ProgressDue(idx) == idx % ProgressEvery = 0

\* EndSentence with the done event sent inside the outer loop
EndSentence_DoneInLoop(c, l, q) ==
    /\ queries' = q
    /\ sent' = safe_send(sent, l.ws, c, EvDone, NoPair)
    /\ hpc' = [hpc EXCEPT ![c] = "sent_prog"]
    /\ loc' = [loc EXCEPT ![c] = l]

\* after the inner loop of sentence l.idx: the progress event when due,
\* else on to the next sentence; q is the record of oracle calls so far
EndSentence(c, l, q) ==
    /\ queries' = q
    /\ IF ProgressDue(l.idx)
       THEN /\ sent' = safe_send(sent, l.ws, c, EvProgress(l.idx, l.total), NoPair)
            /\ hpc' = [hpc EXCEPT ![c] = "sent_prog"]
            /\ loc' = [loc EXCEPT ![c] = l]
       ELSE /\ sent' = sent
            /\ hpc' = [hpc EXCEPT ![c] = "loop"]
            /\ loc' = [loc EXCEPT ![c] = [l EXCEPT !.idx = @ + 1]]

\* lines 89-99: the inner loop from its next candidate on, up to the first
\* oracle call or to its end
Walk(c, l, q) ==
    IF NextCands(l) = {} THEN EndSentence(c, l, q)
    ELSE \E cid \in NextCands(l) :
            LET score == l.X[<<l.idx, cid>>]
                l1 == [l EXCEPT !.cid = cid, !.score = score,
                                !.seen = @ \cup {cid}]
                l2 == [l1 EXCEPT !.checked = @ + 1]
            IN  IF score < min_cos THEN EndSentence(c, l1, q)
                ELSE IF l2.checked > top_k THEN EndSentence(c, l2, q)
                ELSE /\ queries' = [q EXCEPT ![c] =
                            Append(@, [s1 |-> l.idx, s2 |-> cid, res |-> "pending",
                                       pair |-> <<l.idx, cid>>])]
                     /\ hpc' = [hpc EXCEPT ![c] = "nli1"]
                     /\ loc' = [loc EXCEPT ![c] = l2]
                     /\ sent' = sent

\* lines 62-84, entered when the info send returns: the two look-ups, the
\* corpus, the early exit, fit_transform and get_nli
StartRun(c, simvals, ctors) ==
    /\ hpc[c] = "info"
    /\ LET id == sid[c]
           ws == Get(WEBSOCKETS, id)
       IN  IF id \notin DOMAIN SESSIONS \/ ws = None
           THEN /\ Teardown(c, "returned")
                /\ UNCHANGED <<nli_pipe, ctor_calls, sent>>
           ELSE LET data == Lexicon[SESSIONS[id].docs]
                    l0 == RunLocals(ws, data)
                IN  IF Len(l0.corpus) < 2
                    THEN /\ sent' = safe_send(sent, ws, c, EvDone, NoPair)
                         /\ hpc' = [hpc EXCEPT ![c] = "sent_done"]
                         /\ loc' = [loc EXCEPT ![c] = l0]
                         /\ UNCHANGED <<WEBSOCKETS, nli_pipe, ctor_calls, open>>
                    ELSE IF data.fit_fails
                    THEN /\ Teardown(c, HandlerOutcome("ValueError"))
                         /\ UNCHANGED <<nli_pipe, ctor_calls, sent>>
                    ELSE \E X \in SimMatrices(Len(data.corpus), data.nonzero, data.shared, simvals),
                            built \in ctors :
                         /\ nli_pipe' = NliAfter(nli_pipe, ctor_calls, built)
                         /\ ctor_calls' = IF nli_pipe = None THEN ctor_calls + 1
                                          ELSE ctor_calls
                         /\ sent' = sent
                         /\ IF nli_pipe' = None
                            THEN Teardown(c, HandlerOutcome("OSError"))
                            ELSE /\ loc' = [loc EXCEPT ![c] =
                                        [l0 EXCEPT !.X = X, !.nli = nli_pipe',
                                                   !.total = Len(l0.corpus)]]
                                 /\ hpc' = [hpc EXCEPT ![c] = "loop"]
                                 /\ UNCHANGED <<WEBSOCKETS, open>>
    /\ UNCHANGED <<SESSIONS, sid, queries>>

\* line 85: the next sentence, or line 121 when there is none
LoopHead(c) ==
    /\ hpc[c] = "loop"
    /\ IF loc[c].idx < loc[c].total
       THEN Walk(c, [loc[c] EXCEPT !.seen = {}, !.checked = 0], queries)
       ELSE /\ sent' = safe_send(sent, loc[c].ws, c, EvDone, NoPair)
            /\ hpc' = [hpc EXCEPT ![c] = "sent_done"]
            /\ UNCHANGED <<loc, queries>>
    /\ UNCHANGED <<SESSIONS, WEBSOCKETS, nli_pipe, ctor_calls, sid, open>>

\* the oracle's answers: a failure, or a label and a confidence
NliFail == [ok |-> FALSE]
NliOut(label, score) == [ok |-> TRUE, label |-> label, score |-> score]

\* label.upper()
UpperLabel(label) ==
    CASE label = "contradiction" -> "CONTRADICTION"
      [] label = "neutral" -> "NEUTRAL"
      [] label = "entailment" -> "ENTAILMENT"
      [] OTHER -> label

\* "CONTRADICTION" in label
HasContradiction(label) == label = "CONTRADICTION"

\* line 103
IsContra(out1, out2) ==
    HasContradiction(UpperLabel(out1.label)) \/ HasContradiction(UpperLabel(out2.label))

Max(a, b) == IF a >= b THEN a ELSE b

\* MaxConf taken from the direction that carries the contradiction label
MaxConf_OfContra(out1, out2) ==
    IF HasContradiction(UpperLabel(out1.label)) THEN out1.score ELSE out2.score

\* line 104
MaxConf(out1, out2) == Max(out1.score, out2.score)

\* line 105
Flagged(is_contra, max_conf) == is_contra /\ max_conf >= ContraMinConf

\* Severity with the similarity left out of the High branch
Severity_ConfOnly(score, max_conf) ==
    IF max_conf >= HighMinConf THEN "High"
    ELSE IF max_conf >= MediumMinConf THEN "Medium"
    ELSE "Low"

\* line 106
Severity(score, max_conf) ==
    IF score >= HighMinScore /\ max_conf >= HighMinConf THEN "High"
    ELSE IF max_conf >= MediumMinConf THEN "Medium"
    ELSE "Low"

\* the last oracle call of run c is marked with its result
Answered(q, c, res) == [q EXCEPT ![c][Len(q[c])].res = res]

\* OracleFailed with the handler around the whole loop: the error event,
\* then the loop is left
OracleFailed_Abort(c) ==
    /\ queries' = Answered(queries, c, "fail")
    /\ sent' = safe_send(sent, loc[c].ws, c, EvNliError,
                         <<loc[c].idx, loc[c].cid>>)
    /\ hpc' = [hpc EXCEPT ![c] = "loop"]
    /\ loc' = [loc EXCEPT ![c].idx = loc[c].total]

\* lines 117-118: the oracle call raised; one error event, and the inner
\* loop goes on when the send returns
OracleFailed(c) ==
    /\ queries' = Answered(queries, c, "fail")
    /\ sent' = safe_send(sent, loc[c].ws, c, EvNliError,
                         <<loc[c].idx, loc[c].cid>>)
    /\ hpc' = [hpc EXCEPT ![c] = "sent_evt"]
    /\ loc' = loc

\* line 99 returns: out1, then the second call is made (line 100)
Nli1Return(c, outs) ==
    /\ hpc[c] = "nli1"
    /\ \E out \in outs :
          IF ~out.ok THEN OracleFailed(c)
          ELSE /\ queries' = [Answered(queries, c, "ok") EXCEPT ![c] =
                      Append(@, [s1 |-> loc[c].cid, s2 |-> loc[c].idx,
                                 res |-> "pending",
                                 pair |-> <<loc[c].idx, loc[c].cid>>])]
               /\ loc' = [loc EXCEPT ![c].out1 = out]
               /\ hpc' = [hpc EXCEPT ![c] = "nli2"]
               /\ sent' = sent
    /\ UNCHANGED <<SESSIONS, WEBSOCKETS, nli_pipe, ctor_calls, sid, open>>

\* line 100 returns: out2, the verdict (lines 101-106) and either the
\* contradiction event or the rest of the inner loop
Nli2Return(c, outs) ==
    /\ hpc[c] = "nli2"
    /\ \E out \in outs :
          IF ~out.ok THEN OracleFailed(c)
          ELSE LET l1 == [loc[c] EXCEPT
                             !.out2 = out,
                             !.is_contra = IsContra(loc[c].out1, out),
                             !.max_conf = MaxConf(loc[c].out1, out)]
                   l2 == [l1 EXCEPT !.sev = Severity(l1.score, l1.max_conf)]
               IN  IF Flagged(l1.is_contra, l1.max_conf)
                   THEN /\ sent' = safe_send(sent, l2.ws, c,
                                       EvContradiction(l2, DocOf(l2, l2.cid)),
                                       <<l2.idx, l2.cid>>)
                        /\ queries' = Answered(queries, c, "ok")
                        /\ hpc' = [hpc EXCEPT ![c] = "sent_evt"]
                        /\ loc' = [loc EXCEPT ![c] = l2]
                   ELSE Walk(c, l1, Answered(queries, c, "ok"))
    /\ UNCHANGED <<SESSIONS, WEBSOCKETS, nli_pipe, ctor_calls, sid, open>>

\* the send of a contradiction or error event returns: the inner loop goes on
EvtSent(c) ==
    /\ hpc[c] = "sent_evt"
    /\ Walk(c, loc[c], queries)
    /\ UNCHANGED <<SESSIONS, WEBSOCKETS, nli_pipe, ctor_calls, sid, open>>

\* the send of a progress event returns: the next sentence
ProgSent(c) ==
    /\ hpc[c] = "sent_prog"
    /\ loc' = [loc EXCEPT ![c].idx = @ + 1]
    /\ hpc' = [hpc EXCEPT ![c] = "loop"]
    /\ UNCHANGED <<SESSIONS, WEBSOCKETS, nli_pipe, ctor_calls, sid, open, sent,
                   queries>>

\* the send of the done event returns: stream_contradictions returns and
\* the handler ends
DoneSent(c) ==
    /\ hpc[c] = "sent_done"
    /\ Teardown(c, "returned")
    /\ UNCHANGED <<SESSIONS, nli_pipe, ctor_calls, sid, sent, queries>>

---------------------------------------------------------------------------
(* Specifications                                                          *)

\* Spec: every handler may run, concurrently; the environment offers
\* little (one similarity above both thresholds, an oracle that answers
\* "contradiction" with confidence 0.9).
ConcDocSets == {DsOne, DsStop, DsPair}
ConcSims == {4500}
ConcOuts == {NliOut("contradiction", 9000)}

Next ==
    \/ Upload(ConcDocSets, MaxUploads)
    \/ \E c \in Chans :
          \/ Connect(c, Ids)
          \/ Disconnect(c)
          \/ Accepted(c)
          \/ ErrSent(c)
          \/ ErrClosed(c)
          \/ StartRun(c, ConcSims, BOOLEAN)
          \/ LoopHead(c)
          \/ Nli1Return(c, ConcOuts)
          \/ Nli2Return(c, ConcOuts)
          \/ EvtSent(c)
          \/ ProgSent(c)
          \/ DoneSent(c)

Spec == Init /\ [][Next]_vars

\* SpecRun: one connection, and an environment that offers every upload of
\* the catalogue, similarities on both sides of min_cos and of the High
\* threshold, and oracle answers on both sides of every confidence
\* threshold, in either letter case, or a failure.
RunChans == {1}
RunSims == {1496, 1500, 4496, 4500}
RunConfs == {5496, 5500, 7496, 7500, 8996, 9000}
RunOuts == {NliFail} \cup {NliOut(lb, cf) : lb \in {"contradiction", "NEUTRAL"},
                                           cf \in RunConfs}

NextRun ==
    \/ Upload(Catalogue, MaxUploads)
    \/ \E c \in RunChans :
          \/ Connect(c, Ids)
          \/ Disconnect(c)
          \/ Accepted(c)
          \/ ErrSent(c)
          \/ ErrClosed(c)
          \/ StartRun(c, RunSims, BOOLEAN)
          \/ LoopHead(c)
          \/ Nli1Return(c, RunOuts)
          \/ Nli2Return(c, RunOuts)
          \/ EvtSent(c)
          \/ ProgSent(c)
          \/ DoneSent(c)

SpecRun == Init /\ [][NextRun]_vars

---------------------------------------------------------------------------
\* SpecTwo: two sessions of different documents, and two handlers that may
\* be opened for either, concurrently; the environment of Spec.
TwoDocSets == {DsPair, DsOther}

NextTwo ==
    \/ Upload(TwoDocSets, MaxSessions)
    \/ \E c \in Chans :
          \/ Connect(c, Ids)
          \/ Disconnect(c)
          \/ Accepted(c)
          \/ ErrSent(c)
          \/ ErrClosed(c)
          \/ StartRun(c, ConcSims, BOOLEAN)
          \/ LoopHead(c)
          \/ Nli1Return(c, ConcOuts)
          \/ Nli2Return(c, ConcOuts)
          \/ EvtSent(c)
          \/ ProgSent(c)
          \/ DoneSent(c)

SpecTwo == Init /\ [][NextTwo]_vars

\* SpecSplit: one handler, for a session of one file whose text is any of
\* SplitTexts (or for DsPair, which has the run go through its loop).
NextSplit ==
    \/ Upload(SplitDocSets \cup {DsPair}, MaxUploads)
    \/ \E c \in RunChans :
          \/ Connect(c, Ids)
          \/ Disconnect(c)
          \/ Accepted(c)
          \/ ErrSent(c)
          \/ ErrClosed(c)
          \/ StartRun(c, ConcSims, BOOLEAN)
          \/ LoopHead(c)
          \/ Nli1Return(c, ConcOuts)
          \/ Nli2Return(c, ConcOuts)
          \/ EvtSent(c)
          \/ ProgSent(c)
          \/ DoneSent(c)

SpecSplit == Init /\ [][NextSplit]_vars

\* SpecWalk: one handler whose client stays, for the session of DsFan, with
\* every similarity of a term-sharing pair either below min_cos or above it.
WalkSims == {1496, 4500}

NextWalk ==
    \/ Upload({DsFan}, MaxUploads)
    \/ \E c \in RunChans :
          \/ Connect(c, Ids)
          \/ Accepted(c)
          \/ ErrSent(c)
          \/ ErrClosed(c)
          \/ StartRun(c, WalkSims, BOOLEAN)
          \/ LoopHead(c)
          \/ Nli1Return(c, ConcOuts)
          \/ Nli2Return(c, ConcOuts)
          \/ EvtSent(c)
          \/ ProgSent(c)
          \/ DoneSent(c)

SpecWalk == Init /\ [][NextWalk]_vars

\* SpecOrder: one handler, for the session of DsDuo, with three
\* similarities from min_cos on and one below, and an oracle that may fail.
OrderSims == {1496, 1500, 3000, 4500}
OrderOuts == {NliFail} \cup ConcOuts

NextOrder ==
    \/ Upload({DsDuo}, MaxUploads)
    \/ \E c \in RunChans :
          \/ Connect(c, Ids)
          \/ Disconnect(c)
          \/ Accepted(c)
          \/ ErrSent(c)
          \/ ErrClosed(c)
          \/ StartRun(c, OrderSims, BOOLEAN)
          \/ LoopHead(c)
          \/ Nli1Return(c, OrderOuts)
          \/ Nli2Return(c, OrderOuts)
          \/ EvtSent(c)
          \/ ProgSent(c)
          \/ DoneSent(c)

SpecOrder == Init /\ [][NextOrder]_vars

---------------------------------------------------------------------------
(* Vocabulary of the properties                                            *)

\* the types of the events sent on channel ch, in order
Types(ch) == [i \in DOMAIN sent[ch] |-> sent[ch][i].ev.type]

\* channel c passed the session check: its first event is the info event
\* of its own handler
Started(c) == sent[c] # <<>> /\ sent[c][1].ev = EvInfo /\ sent[c][1].run = c

\* the positions of channel ch that hold an event of type ty
At(ch, ty) == {i \in DOMAIN sent[ch] : sent[ch][i].ev.type = ty}

\* the positions of channel ch that hold an event sent by the run that the
\* handler of c started (the info event is the handler's, not the run's)
ByRun(ch, c) ==
    {i \in DOMAIN sent[ch] : sent[ch][i].run = c /\ sent[ch][i].ev.type # "info"
                              /\ sent[ch][i].ev # EvInvalid}

\* the number of sentences of the session that handler c was opened for
SentencesOf(c) == Len(Lexicon[SESSIONS[sid[c]].docs].corpus)

---------------------------------------------------------------------------
(* C1  (stated as in the claim; the code violates it)                      *)
(* On every channel that passed the session check, under every             *)
(* interleaving of the handlers: the info event is the first and only      *)
(* info event, at most one done event is sent and nothing follows it,      *)
(* every event is sent by the channel's own handler and run, and once the  *)
(* handler has returned the channel has been sent its done event.          *)
C1_Original ==
    \A c \in Chans :
        Started(c) =>
            /\ At(c, "info") = {1}
            /\ Cardinality(At(c, "done")) <= 1
            /\ \A i \in At(c, "done") : i = Len(sent[c])
            /\ \A i \in DOMAIN sent[c] : sent[c][i].run = c
            /\ hpc[c] = "returned" => At(c, "done") # {}

---------------------------------------------------------------------------
(* C2                                                                      *)
(* A run sends all its events on one channel; among them at most one is a  *)
(* done event and nothing of the run follows it; and a run that has        *)
(* reached its end, by the early exit or after the loop, has sent exactly  *)
(* one.                                                                    *)
DoneBy(c) ==
    UNION {{<<ch, i>> : i \in {k \in ByRun(ch, c) : sent[ch][k].ev.type = "done"}} :
              ch \in Chans}

C2_Theorem ==
    \A c \in Chans :
        /\ \A ch1, ch2 \in Chans :
              ByRun(ch1, c) # {} /\ ByRun(ch2, c) # {} => ch1 = ch2
        /\ Cardinality(DoneBy(c)) <= 1
        /\ \A p \in DoneBy(c) : \A k \in ByRun(p[1], c) : k <= p[2]
        /\ hpc[c] = "sent_done" => Cardinality(DoneBy(c)) = 1
        /\ (hpc[c] = "returned" /\ \E ch \in Chans : ByRun(ch, c) # {})
              => Cardinality(DoneBy(c)) = 1

\* a run over three sentences stands at its end after a contradiction
\* event and a progress event
C2_Witness ==
    \E c \in Chans :
        /\ hpc[c] = "sent_done"
        /\ loc[c].total >= 2
        /\ \E i, k \in ByRun(loc[c].ws, c) :
              /\ sent[loc[c].ws][i].ev.type = "contradiction"
              /\ sent[loc[c].ws][k].ev.type = "progress"

---------------------------------------------------------------------------
(* C3  (stated as in the claim; the code violates it)                      *)
(* No handler that passed the session check is left by an exception.       *)
C3_Original == \A c \in Chans : Started(c) => hpc[c] # "raised"

---------------------------------------------------------------------------
(* C4  (stated as in the claim; the code violates it)                      *)
(* On a channel opened for a session of fewer than 2 sentences the events  *)
(* sent are a prefix of info, done, and exactly info, done once the        *)
(* handler has ended; its run makes no oracle call and holds no oracle.    *)
C4_Original ==
    \A c \in Chans :
        (Started(c) /\ SentencesOf(c) < 2) =>
            /\ Types(c) \in {<<"info">>, <<"info", "done">>}
            /\ hpc[c] \in Ended => Types(c) = <<"info", "done">>
            /\ queries[c] = <<>>
            /\ loc[c].nli = None

---------------------------------------------------------------------------
(* C5                                                                      *)
(* A handler whose session_id is missing or not in SESSIONS when it is     *)
(* checked sends the error event on its channel and nothing else, then     *)
(* closes the channel; no other handler sends on that channel, no run is   *)
(* started, and none of these steps changes SESSIONS or WEBSOCKETS.        *)
Rejecting == {"err_send", "err_close", "rejected", "reject_raised"}

C5_State ==
    \A c \in Chans :
        hpc[c] \in Rejecting =>
            /\ sent[c] = <<[ev |-> EvInvalid, run |-> c, dlv |-> TRUE, pair |-> NoPair]>>
            /\ queries[c] = <<>>
            /\ loc[c] = NoLoc
            /\ \A id \in DOMAIN WEBSOCKETS : WEBSOCKETS[id] # c
            /\ hpc[c] # "err_send" => ~open[c]

C5_Step ==
    \A c \in Chans :
        /\ (/\ hpc[c] = "accept"
            /\ hpc'[c] # "accept"
            /\ (sid[c] = 0 \/ sid[c] \notin DOMAIN SESSIONS))
              => /\ hpc'[c] = "err_send"
                 /\ SESSIONS' = SESSIONS
                 /\ WEBSOCKETS' = WEBSOCKETS
        /\ (hpc[c] \in Rejecting /\ hpc'[c] # hpc[c])
              => /\ hpc'[c] \in Rejecting
                 /\ SESSIONS' = SESSIONS
                 /\ WEBSOCKETS' = WEBSOCKETS

C5_Theorem == [] C5_State /\ [][C5_Step]_vars

\* a handler opened with an id that upload never returns has returned at
\* line 146 while another channel is bound to a session
C5_Witness ==
    \E c \in Chans :
        /\ hpc[c] = "rejected"
        /\ sid[c] = MaxUploads + 1
        /\ WEBSOCKETS # <<>>

---------------------------------------------------------------------------
(* C6                                                                      *)
(* Every oracle query of a run, and every contradiction or error event it  *)
(* produces from a pair, is about two sentences of different document      *)
(* indices (so never a sentence with itself), whatever the documents'      *)
(* names; and a contradiction event carries the sentences and document     *)
(* names of its pair.                                                      *)
SessionData(c) == Lexicon[SESSIONS[sid[c]].docs]
DocIx(c, j) == SessionData(c).sent_idx[j + 1][1]

C6_Theorem ==
    \A c \in Chans :
        /\ \A i \in DOMAIN queries[c] :
              DocIx(c, queries[c][i].s1) # DocIx(c, queries[c][i].s2)
        /\ \A ch \in Chans : \A i \in ByRun(ch, c) :
              LET e == sent[ch][i]
              IN  /\ e.ev.type \in {"contradiction", "error"} <=> e.pair # NoPair
                  /\ e.pair # NoPair => DocIx(c, e.pair[1]) # DocIx(c, e.pair[2])
                  /\ e.ev.type = "contradiction" =>
                        /\ e.ev.sentence1 = SessionData(c).corpus[e.pair[1] + 1]
                        /\ e.ev.sentence2 = SessionData(c).corpus[e.pair[2] + 1]
                        /\ e.ev.doc1 = SessionData(c).names[DocIx(c, e.pair[1]) + 1]
                        /\ e.ev.doc2 = SessionData(c).names[DocIx(c, e.pair[2]) + 1]

\* two documents of one name: a contradiction event with doc1 = doc2 has
\* been sent, in a run where two sentences of one document are similar
\* enough to be candidates of each other
C6_Witness ==
    \E c \in Chans :
        /\ hpc[c] = "sent_done"
        /\ \E j, k \in 0 .. (loc[c].total - 1) :
              /\ j # k
              /\ DocOf(loc[c], j) = DocOf(loc[c], k)
              /\ loc[c].X[<<j, k>>] >= min_cos
        /\ \E i \in ByRun(loc[c].ws, c) :
              /\ sent[loc[c].ws][i].ev.type = "contradiction"
              /\ sent[loc[c].ws][i].ev.doc1 = sent[loc[c].ws][i].ev.doc2

---------------------------------------------------------------------------
(* C7                                                                      *)
(* When the second query of a pair returns and both have succeeded, a      *)
(* contradiction event for the pair is sent if and only if one of the two  *)
(* labels is of the contradiction class and the larger of the two          *)
(* confidences is at least 0.55; the similarity does not enter.            *)
ContradictionClass == {"contradiction", "CONTRADICTION"}

\* the events that the step appends to channel ch
NewEvents(ch) == {sent'[ch][i] : i \in (Len(sent[ch]) + 1) .. Len(sent'[ch])}

C7_Step ==
    \A c \in Chans :
        (/\ hpc[c] = "nli2"
         /\ hpc'[c] # "nli2"
         /\ queries'[c][Len(queries[c])].res = "ok")
        => LET o1 == loc'[c].out1
               o2 == loc'[c].out2
               larger == IF o1.score >= o2.score THEN o1.score ELSE o2.score
               due == /\ o1.label \in ContradictionClass \/ o2.label \in ContradictionClass
                      /\ larger >= 5500
               emitted == \E e \in NewEvents(loc[c].ws) :
                              /\ e.ev.type = "contradiction"
                              /\ e.pair = <<loc[c].idx, loc[c].cid>>
           IN  /\ o1 = loc[c].out1
               /\ emitted <=> due
               /\ \A ch \in Chans : \A e \in NewEvents(ch) :
                     e.ev.type = "contradiction" => (ch = loc[c].ws /\ due)

C7_Theorem == [][C7_Step]_vars

\* a contradiction event has just been sent for a pair whose
\* contradiction-labelled direction has confidence below 0.55; the other
\* direction, labelled neutral, has one of at least 0.55
C7_Witness ==
    \E c \in Chans :
        /\ hpc[c] = "sent_evt"
        /\ sent[loc[c].ws][Len(sent[loc[c].ws])].ev.type = "contradiction"
        /\ loc[c].out1.label = "contradiction"
        /\ loc[c].out1.score < 5500
        /\ loc[c].out2.label = "NEUTRAL"
        /\ loc[c].out2.score >= 5500

---------------------------------------------------------------------------
(* C8                                                                      *)
(* A contradiction event that has just been sent has severity High         *)
(* exactly when the pair's similarity is at least 0.45 and the larger      *)
(* confidence at least 0.90, Medium exactly when it is not High and the    *)
(* larger confidence is at least 0.75, and Low otherwise, the larger       *)
(* confidence then lying in [0.55, 0.75).                                  *)
LastEvent(c) == sent[loc[c].ws][Len(sent[loc[c].ws])]

C8_Theorem ==
    \A c \in Chans :
        (hpc[c] = "sent_evt" /\ LastEvent(c).ev.type = "contradiction")
        => LET similarity == loc[c].X[LastEvent(c).pair]
               larger == IF loc[c].out1.score >= loc[c].out2.score
                         THEN loc[c].out1.score ELSE loc[c].out2.score
               high == similarity >= 4500 /\ larger >= 9000
               medium == ~high /\ larger >= 7500
               sev == LastEvent(c).ev.severity
           IN  /\ LastEvent(c).pair = <<loc[c].idx, loc[c].cid>>
               /\ sev \in {"High", "Medium", "Low"}
               /\ sev = "High" <=> high
               /\ sev = "Medium" <=> medium
               /\ sev = "Low" <=> (~high /\ ~medium)
               /\ sev = "Low" => (5500 <= larger /\ larger < 7500)
               /\ LastEvent(c).ev.confidence = (larger + 5) \div 10
               /\ LastEvent(c).ev.similarity = (similarity + 5) \div 10

\* a Medium event for a pair with larger confidence at least 0.90 and a
\* similarity just below 0.45 (which the event shows rounded to 0.450)
C8_Witness ==
    \E c \in Chans :
        /\ hpc[c] = "sent_evt"
        /\ LastEvent(c).ev.type = "contradiction"
        /\ LastEvent(c).ev.severity = "Medium"
        /\ loc[c].max_conf >= 9000
        /\ loc[c].score = 4496
        /\ LastEvent(c).ev.similarity = 450

---------------------------------------------------------------------------
(* C9  (stated as in the claim; the code violates it)                      *)
(* The run of a handler over N >= 2 sentences sends its progress events    *)
(* for indices that are multiples of 50 below N, each once, and when the   *)
(* handler has ended there are ceil(N/50) of them, so at least one.        *)
ProgressBy(c) ==
    UNION {{<<ch, i>> : i \in {k \in ByRun(ch, c) : sent[ch][k].ev.type = "progress"}} :
              ch \in Chans}

C9_Original ==
    \A c \in Chans :
        (Started(c) /\ SentencesOf(c) >= 2) =>
            /\ \A p \in ProgressBy(c) :
                  /\ sent[p[1]][p[2]].ev.processed % 50 = 0
                  /\ sent[p[1]][p[2]].ev.processed < SentencesOf(c)
                  /\ sent[p[1]][p[2]].ev.total = SentencesOf(c)
            /\ \A p, r \in ProgressBy(c) :
                  sent[p[1]][p[2]].ev.processed = sent[r[1]][r[2]].ev.processed
                      => p = r
            /\ hpc[c] \in Ended =>
                  /\ Cardinality(ProgressBy(c)) = (SentencesOf(c) + 49) \div 50
                  /\ Cardinality(ProgressBy(c)) >= 1

---------------------------------------------------------------------------
(* C10                                                                     *)
(* When a query of a pair fails, that step sends one error event for the   *)
(* pair and leaves the position of the walk as it is; when the send        *)
(* returns, the run goes on from that position as after any candidate: to  *)
(* the best unvisited candidate of another document while it reaches       *)
(* min_cos and fewer than top_k pairs of the sentence were queried, else   *)
(* to the progress event when due and the next sentence.  A pair with a    *)
(* failed query has exactly one event, the error event.                    *)
Failing(c) ==
    /\ hpc[c] \in {"nli1", "nli2"}
    /\ queries'[c][Len(queries[c])].res = "fail"

C10_Fail ==
    \A c \in Chans :
        Failing(c) =>
            /\ sent' = [sent EXCEPT ![loc[c].ws] =
                           Append(@, [ev |-> [type |-> "error", message |-> "NLI error"],
                                      run |-> c, dlv |-> open[loc[c].ws],
                                      pair |-> <<loc[c].idx, loc[c].cid>>])]
            /\ hpc'[c] = "sent_evt"
            /\ loc'[c] = loc[c]
            /\ Len(queries'[c]) = Len(queries[c])

C10_Resume ==
    \A c \in Chans :
        (/\ hpc[c] = "sent_evt"
         /\ hpc'[c] # "sent_evt"
         /\ LastEvent(c).ev.type = "error")
        => LET l == loc[c]
               rest == {j \in 0 .. (l.total - 1) :
                           /\ j # l.idx
                           /\ l.sent_idx[j + 1][1] # l.sent_idx[l.idx + 1][1]
                           /\ j \notin l.seen}
               best == {j \in rest : \A k \in rest : l.X[<<l.idx, k>>] <= l.X[<<l.idx, j>>]}
               goes_on == /\ rest # {}
                          /\ \E j \in best : l.X[<<l.idx, j>>] >= 1500
                          /\ l.checked < 5
           IN  IF goes_on
               THEN /\ hpc'[c] = "nli1"
                    /\ loc'[c].idx = l.idx
                    /\ loc'[c].cid \in best
                    /\ loc'[c].checked = l.checked + 1
                    /\ queries'[c] = Append(queries[c],
                           [s1 |-> l.idx, s2 |-> loc'[c].cid, res |-> "pending",
                            pair |-> <<l.idx, loc'[c].cid>>])
                    /\ sent' = sent
               ELSE /\ queries' = queries
                    /\ IF l.idx % 50 = 0
                       THEN /\ hpc'[c] = "sent_prog"
                            /\ loc'[c].idx = l.idx
                            /\ sent' = [sent EXCEPT ![l.ws] =
                                  Append(@, [ev |-> [type |-> "progress",
                                                     processed |-> l.idx,
                                                     total |-> l.total],
                                             run |-> c, dlv |-> open[l.ws],
                                             pair |-> NoPair])]
                       ELSE /\ hpc'[c] = "loop"
                            /\ loc'[c].idx = l.idx + 1
                            /\ sent' = sent

PairEvents(c, pr) ==
    UNION {{<<ch, k>> : k \in {m \in ByRun(ch, c) : sent[ch][m].pair = pr}} :
              ch \in Chans}

C10_Pairs ==
    \A c \in Chans : \A i \in DOMAIN queries[c] :
        queries[c][i].res = "fail" =>
            /\ Cardinality(PairEvents(c, queries[c][i].pair)) = 1
            /\ \A p \in PairEvents(c, queries[c][i].pair) :
                  sent[p[1]][p[2]].ev = EvNliError

C10_Theorem == [] C10_Pairs /\ [][C10_Fail /\ C10_Resume]_vars

\* the run stands at its end; the first query of a pair failed, and after
\* the error event the run sent a contradiction event for a later pair and
\* a progress event
C10_Witness ==
    \E c \in Chans :
        /\ hpc[c] = "sent_done"
        /\ \E i, k, m \in ByRun(loc[c].ws, c) :
              /\ i < k /\ i < m
              /\ sent[loc[c].ws][i].ev = EvNliError
              /\ sent[loc[c].ws][k].ev.type = "contradiction"
              /\ sent[loc[c].ws][m].ev.type = "progress"

---------------------------------------------------------------------------
(* C11                                                                     *)
(* A closed channel changes nothing but the delivery of the events: the    *)
(* client's going away touches no other part of the state; every send of   *)
(* a run is attempted once, delivered exactly when the channel is open,    *)
(* never repeated and never raising; a run that stands at its end has      *)
(* queried exactly the pairs that the similarities select and attempted    *)
(* the progress events that are due and one error event per failed pair,   *)
(* whatever was delivered; and a handler that has ended has unbound its    *)
(* channel.                                                                *)
Running == {"info", "loop", "nli1", "nli2", "sent_evt", "sent_prog", "sent_done"}

\* all the events appended by the step, as channel and position
Appended ==
    UNION {{<<ch, i>> : i \in (Len(sent[ch]) + 1) .. Len(sent'[ch])} : ch \in Chans}

C11_Step ==
    /\ open' # open /\ hpc' = hpc =>
          UNCHANGED <<SESSIONS, WEBSOCKETS, nli_pipe, ctor_calls, sid, loc, sent, queries>>
    /\ \A ch \in Chans :
          /\ Len(sent'[ch]) >= Len(sent[ch])
          /\ \A i \in DOMAIN sent[ch] : sent'[ch][i] = sent[ch][i]
    /\ Cardinality(Appended) <= 1
    /\ \A p \in Appended : sent'[p[1]][p[2]].dlv = open[p[1]]
    /\ \A c \in Chans :
          (hpc[c] \in Running \ {"info"} /\ hpc'[c] # hpc[c]) =>
              /\ hpc'[c] \in (Running \cup {"returned"})
              /\ hpc'[c] = "returned" <=> hpc[c] = "sent_done"

\* the pairs that the walk of a run with locals l selects when no sentence
\* has more than 5 candidates, as it is with at most 6 sentences
Selected(l) ==
    {p \in (0 .. (l.total - 1)) \X (0 .. (l.total - 1)) :
        /\ p[1] # p[2]
        /\ l.sent_idx[p[1] + 1][1] # l.sent_idx[p[2] + 1][1]
        /\ l.X[p] >= 1500}

Attempted(c, ty) == {i \in ByRun(loc[c].ws, c) : sent[loc[c].ws][i].ev.type = ty}

C11_AtEnd ==
    \A c \in Chans :
        (hpc[c] = "sent_done" /\ loc[c].total >= 2) =>
            /\ loc[c].total <= 6 =>
                  {queries[c][i].pair : i \in DOMAIN queries[c]} = Selected(loc[c])
            /\ {sent[loc[c].ws][i].ev.processed : i \in Attempted(c, "progress")}
                  = {i \in 0 .. (loc[c].total - 1) : i % 50 = 0}
            /\ Cardinality(Attempted(c, "error"))
                  = Cardinality({i \in DOMAIN queries[c] : queries[c][i].res = "fail"})
            /\ Cardinality(Attempted(c, "done")) = 1

C11_Unbound ==
    \A c \in Chans :
        hpc[c] \in {"returned", "raised"} => \A id \in DOMAIN WEBSOCKETS : WEBSOCKETS[id] # c

C11_Theorem == [] (C11_AtEnd /\ C11_Unbound) /\ [][C11_Step]_vars

\* the client went away after the info event: the handler has returned and
\* unbound its channel after a run whose contradiction, progress and done
\* events were all attempted and none delivered
C11_Witness ==
    \E c \in Chans :
        /\ hpc[c] = "returned"
        /\ sent[c][1].dlv
        /\ \A i \in ByRun(c, c) : ~sent[c][i].dlv
        /\ \E i, k, m \in ByRun(c, c) :
              /\ sent[c][i].ev.type = "contradiction"
              /\ sent[c][k].ev.type = "progress"
              /\ sent[c][m].ev.type = "done"
        /\ WEBSOCKETS = <<>>

---------------------------------------------------------------------------
(* C12                                                                     *)
(* The constructor is invoked only while the oracle is unset, so the       *)
(* invocation that set it is the last one; once set, the oracle is never   *)
(* replaced or reset; and every run past get_nli, of whatever session,     *)
(* holds that one instance.                                                *)
PastGetNli == {"loop", "nli1", "nli2", "sent_evt", "sent_prog"}

C12_State ==
    /\ nli_pipe # None => ctor_calls = nli_pipe
    /\ \A c \in Chans :
          /\ loc[c].nli # None => loc[c].nli = nli_pipe
          /\ hpc[c] \in PastGetNli => loc[c].nli # None

C12_Step ==
    /\ ctor_calls' \in {ctor_calls, ctor_calls + 1}
    /\ nli_pipe # None => (nli_pipe' = nli_pipe /\ ctor_calls' = ctor_calls)
    /\ nli_pipe' # nli_pipe => ctor_calls' = ctor_calls + 1

---------------------------------------------------------------------------
(* C13                                                                     *)
(* For every document of a session whose run was started, the sentences    *)
(* that split_sentences gave for it neither begin nor end with whitespace  *)
(* and have length at least 4, and they are, in order, the trimmed pieces  *)
(* of the boundary split whose trimmed length is at least 4; the pieces    *)
(* of smaller trimmed length are not among them.                           *)
Whitespace == {" ", "\t", "\n", "\r"}

\* the pieces of the boundary split of the text, trimmed
TrimmedPieces(text) ==
    LET pieces == RegexSplit(Strip(ReplaceBreaks(text)))
    IN  [n \in DOMAIN pieces |-> Strip(pieces[n])]

\* the sentences of document d (counted from 0) in the corpus of handler c
SentencesOfDoc(c, d) ==
    LET data == SessionData(c)
        at == {i \in DOMAIN data.corpus : data.sent_idx[i][1] = d}
    IN  [j \in 1 .. Cardinality(at) |->
            data.corpus[CHOOSE i \in at : data.sent_idx[i] = <<d, j - 1>>]]

SplitAsClaimed(text, result) ==
    LET tp == TrimmedPieces(text)
        long == {n \in DOMAIN tp : Len(tp[n]) >= 4}
        nth(j) == CHOOSE n \in long : Cardinality({m \in long : m < n}) = j - 1
    IN  /\ \A j \in DOMAIN result :
              /\ Len(result[j]) >= 4
              /\ result[j][1] \notin Whitespace
              /\ result[j][Len(result[j])] \notin Whitespace
        /\ Len(result) = Cardinality(long)
        /\ \A j \in DOMAIN result : result[j] = tp[nth(j)]
        /\ \A n \in DOMAIN tp : Len(tp[n]) < 4 => \A j \in DOMAIN result : result[j] # tp[n]

C13_Theorem ==
    \A c \in Chans :
        Started(c) =>
            \A d \in DOMAIN SESSIONS[sid[c]].docs :
                SplitAsClaimed(SESSIONS[sid[c]].docs[d].text, SentencesOfDoc(c, d - 1))

\* a run was started on a text with a line break whose split has three
\* pieces, the middle one of length 3: two sentences are left
C13_Witness ==
    \E c \in Chans :
        /\ Started(c)
        /\ hpc[c] # "info"
        /\ Len(SESSIONS[sid[c]].docs) = 1
        /\ \E i \in DOMAIN SESSIONS[sid[c]].docs[1].text :
              SESSIONS[sid[c]].docs[1].text[i] = "\n"
        /\ Len(TrimmedPieces(SESSIONS[sid[c]].docs[1].text)) = 3
        /\ Len(TrimmedPieces(SESSIONS[sid[c]].docs[1].text)[2]) = 3
        /\ Len(SentencesOfDoc(c, 0)) = 2

---------------------------------------------------------------------------
(* C14                                                                     *)
(* The step that ends a handler removes the binding of its session when    *)
(* that binding is the handler's own channel and leaves the binding map    *)
(* as it is otherwise; and a binding disappears only in the step that      *)
(* ends the handler of the bound channel.                                  *)
Ends(c) == hpc[c] \notin Ended /\ hpc'[c] \in {"returned", "raised"}

C14_Step ==
    /\ \A c \in Chans :
          Ends(c) =>
              IF sid[c] \in DOMAIN WEBSOCKETS /\ WEBSOCKETS[sid[c]] = c
              THEN /\ DOMAIN WEBSOCKETS' = DOMAIN WEBSOCKETS \ {sid[c]}
                   /\ \A id \in DOMAIN WEBSOCKETS' : WEBSOCKETS'[id] = WEBSOCKETS[id]
              ELSE WEBSOCKETS' = WEBSOCKETS
    /\ \A id \in DOMAIN WEBSOCKETS :
          id \notin DOMAIN WEBSOCKETS' => Ends(WEBSOCKETS[id])

C14_Theorem == [][C14_Step]_vars

\* channel B replaced channel A as the binding while A's run was under
\* way (A's run has sent on B); A's handler has ended, B's has not, and the
\* binding is still B
C14_Witness ==
    \E a, b \in Chans :
        /\ a # b
        /\ sid[a] = sid[b]
        /\ hpc[a] \in {"returned", "raised"}
        /\ hpc[b] \in Running
        /\ ByRun(b, a) # {}
        /\ sid[b] \in DOMAIN WEBSOCKETS
        /\ WEBSOCKETS[sid[b]] = b

---------------------------------------------------------------------------
(* C15                                                                     *)
(* For each sentence of a run, the candidates sent to the oracle are at    *)
(* most 5, each of another document and of similarity at least 0.15, and   *)
(* no candidate of another document that was not sent is more similar      *)
(* than one that was; once the sentence is done they are as many as the    *)
(* candidates of another document of similarity at least 0.15, or 5 if     *)
(* those are more.  The queries of a sentence are made in non-increasing   *)
(* similarity, two at most for a pair, and at most 10*N in all.            *)
Queried(c, i) ==
    {queries[c][k].pair[2] : k \in {m \in DOMAIN queries[c] : queries[c][m].pair[1] = i}}

Eligible(l, i) ==
    {k \in 0 .. (l.total - 1) :
        k # i /\ l.sent_idx[k + 1][1] # l.sent_idx[i + 1][1] /\ l.X[<<i, k>>] >= 1500}

C15_Theorem ==
    \A c \in Chans :
        (hpc[c] \in Running /\ loc[c].total >= 2) =>
            LET l == loc[c]
            IN  /\ \A i \in 0 .. (l.total - 1) :
                      /\ Cardinality(Queried(c, i)) <= 5
                      /\ Queried(c, i) \subseteq Eligible(l, i)
                      /\ \A j \in Queried(c, i) : \A k \in Eligible(l, i) \ Queried(c, i) :
                            l.X[<<i, k>>] <= l.X[<<i, j>>]
                      /\ i < l.idx =>
                            Cardinality(Queried(c, i)) =
                                IF Cardinality(Eligible(l, i)) <= 5
                                THEN Cardinality(Eligible(l, i)) ELSE 5
                /\ \A k, m \in DOMAIN queries[c] :
                      /\ queries[c][k].pair \in {<<queries[c][k].s1, queries[c][k].s2>>,
                                                 <<queries[c][k].s2, queries[c][k].s1>>}
                      /\ (k < m /\ queries[c][k].pair[1] = queries[c][m].pair[1]) =>
                            l.X[queries[c][m].pair] <= l.X[queries[c][k].pair]
                      /\ (k < m /\ queries[c][k].pair = queries[c][m].pair) =>
                            /\ m = k + 1
                            /\ queries[c][k].s1 = queries[c][m].s2
                /\ Len(queries[c]) <= 10 * l.total

\* the run stands at its end: the first sentence had six candidates of
\* another document above min_cos, five of which were sent to the oracle,
\* and a sentence of its own document above min_cos, which was not
C15_Witness ==
    \E c \in Chans :
        /\ hpc[c] = "sent_done"
        /\ Cardinality(Eligible(loc[c], 0)) = 6
        /\ Cardinality(Queried(c, 0)) = 5
        /\ loc[c].sent_idx[2][1] = loc[c].sent_idx[1][1]
        /\ loc[c].X[<<0, 1>>] >= 1500

---------------------------------------------------------------------------
(* C16  (stated as in the claim; the code violates it)                     *)
(* The progress event sent after the sentence at index i was processed     *)
(* carries processed = i + 1, the number of sentences done by then, and    *)
(* total = the number of sentences of the run.                             *)
C16_Original ==
    \A c \in Chans :
        hpc[c] = "sent_prog" =>
            /\ LastEvent(c).ev.type = "progress"
            /\ LastEvent(c).ev.processed = loc[c].idx + 1
            /\ LastEvent(c).ev.total = Len(loc[c].corpus)

---------------------------------------------------------------------------
(* C17                                                                     *)
(* The sentences of a run are numbered in document order and, within a     *)
(* document, in sentence order; the events of the run come in the order    *)
(* of the sentences they belong to, the progress event of a sentence       *)
(* after its contradiction and error events and before every event of a    *)
(* later sentence, done after all; and the contradiction and error events  *)
(* of one sentence come in non-increasing similarity of their candidates.  *)

\* the sentence that the event at position i of the channel of run c
\* belongs to (the number of sentences for the done event)
SentenceOf(c, i) ==
    LET e == sent[loc[c].ws][i]
    IN  IF e.pair # NoPair THEN e.pair[1]
        ELSE IF e.ev.type = "progress" THEN e.ev.processed
        ELSE loc[c].total

C17_Theorem ==
    \A c \in Chans :
        (hpc[c] \in Running /\ loc[c].total >= 2) =>
            LET l == loc[c]
                docs == SESSIONS[sid[c]].docs
            IN  /\ \A j, k \in DOMAIN l.sent_idx :
                      j < k => \/ l.sent_idx[j][1] < l.sent_idx[k][1]
                               \/ /\ l.sent_idx[j][1] = l.sent_idx[k][1]
                                  /\ l.sent_idx[j][2] < l.sent_idx[k][2]
                /\ \A j \in DOMAIN l.corpus :
                      l.corpus[j] = split_sentences(docs[l.sent_idx[j][1] + 1].text)
                                        [l.sent_idx[j][2] + 1]
                /\ \A a, b \in ByRun(l.ws, c) :
                      a < b =>
                          /\ SentenceOf(c, a) <= SentenceOf(c, b)
                          /\ sent[l.ws][a].pair = NoPair => SentenceOf(c, a) < SentenceOf(c, b)
                          /\ (/\ sent[l.ws][a].pair # NoPair
                              /\ sent[l.ws][b].pair # NoPair
                              /\ SentenceOf(c, a) = SentenceOf(c, b))
                             => l.X[sent[l.ws][b].pair] <= l.X[sent[l.ws][a].pair]
                /\ \A a \in ByRun(l.ws, c) :
                      sent[l.ws][a].ev.type # "done" => SentenceOf(c, a) <= l.idx

\* the run stands at its end: two events of the first sentence, the less
\* similar candidate second, then its progress event, then an event of a
\* later sentence
C17_Witness ==
    \E c \in Chans :
        /\ hpc[c] = "sent_done"
        /\ \E a, b, p, d \in ByRun(loc[c].ws, c) :
              /\ a < b /\ b < p /\ p < d
              /\ sent[loc[c].ws][a].pair # NoPair
              /\ sent[loc[c].ws][b].pair # NoPair
              /\ SentenceOf(c, a) = 0
              /\ SentenceOf(c, b) = 0
              /\ loc[c].X[sent[loc[c].ws][b].pair] < loc[c].X[sent[loc[c].ws][a].pair]
              /\ sent[loc[c].ws][p].ev.type = "progress"
              /\ sent[loc[c].ws][d].pair # NoPair
              /\ SentenceOf(c, d) > 0

---------------------------------------------------------------------------
(* C18                                                                     *)
(* No step removes a session or changes its documents; a step that         *)
(* changes the session map adds one entry, under a token that was not in   *)
(* the map, and changes nothing else.                                      *)
C18_Step ==
    /\ \A id \in DOMAIN SESSIONS :
          id \in DOMAIN SESSIONS' /\ SESSIONS'[id] = SESSIONS[id]
    /\ SESSIONS' # SESSIONS =>
          /\ Cardinality(DOMAIN SESSIONS' \ DOMAIN SESSIONS) = 1
          /\ UNCHANGED <<WEBSOCKETS, nli_pipe, ctor_calls, hpc, sid, open, loc,
                         sent, queries>>

C18_Theorem == [][C18_Step]_vars

\* two sessions of different documents; the handler of a channel opened
\* for the first has ended after a complete run, one for the second is in
\* its run
C18_Witness ==
    /\ DOMAIN SESSIONS = {1, 2}
    /\ SESSIONS[1] # SESSIONS[2]
    /\ \E a, b \in Chans :
          /\ sid[a] = 1 /\ hpc[a] = "returned" /\ At(a, "done") # {}
          /\ sid[b] = 2 /\ hpc[b] \in PastGetNli

---------------------------------------------------------------------------
(* C19                                                                     *)
(* Every entry of WEBSOCKETS, under a session id, is a channel that was    *)
(* opened with that id, whose handler passed the session check and has     *)
(* not ended; so a session all of whose handlers have ended has no entry.  *)
C19_Theorem ==
    /\ \A id \in DOMAIN WEBSOCKETS :
          /\ WEBSOCKETS[id] \in Chans
          /\ id \in DOMAIN SESSIONS
          /\ sid[WEBSOCKETS[id]] = id
          /\ Started(WEBSOCKETS[id])
          /\ hpc[WEBSOCKETS[id]] \in Running
    /\ \A id \in DOMAIN SESSIONS :
          (\A c \in Chans : sid[c] = id => hpc[c] \in Ended) => id \notin DOMAIN WEBSOCKETS

\* two handlers were opened for one session, the second binding replaced
\* the first during the first one's run, both have ended, and the session
\* has no binding
C19_Witness ==
    /\ \E a, b \in Chans :
          /\ a # b
          /\ sid[a] = sid[b]
          /\ ByRun(b, a) # {}
    /\ \A c \in Chans : hpc[c] \in {"returned", "raised"}
    /\ WEBSOCKETS = <<>>

---------------------------------------------------------------------------
(* C20                                                                     *)
(* Every event on a channel was sent by the run of a handler opened for    *)
(* the session the channel was opened for, and a contradiction event on    *)
(* it names two documents of that session and quotes a sentence of each.   *)
SentenceIn(data, name, sentence) ==
    \E j \in DOMAIN data.corpus :
        /\ data.corpus[j] = sentence
        /\ data.names[data.sent_idx[j][1] + 1] = name

C20_Theorem ==
    \A ch \in Chans :
        /\ \A i \in DOMAIN sent[ch] : sid[sent[ch][i].run] = sid[ch]
        /\ At(ch, "contradiction") # {} =>
              /\ sid[ch] \in DOMAIN SESSIONS
              /\ LET data == SessionData(ch)
                 IN  \A i \in At(ch, "contradiction") :
                        /\ SentenceIn(data, sent[ch][i].ev.doc1, sent[ch][i].ev.sentence1)
                        /\ SentenceIn(data, sent[ch][i].ev.doc2, sent[ch][i].ev.sentence2)

\* two handlers, opened for two sessions of different documents, are in
\* their runs at once, and a contradiction event was sent on each channel
C20_Witness ==
    \E a, b \in Chans :
        /\ sid[a] # sid[b]
        /\ {sid[a], sid[b]} \subseteq DOMAIN SESSIONS
        /\ SESSIONS[sid[a]] # SESSIONS[sid[b]]
        /\ hpc[a] \in PastGetNli
        /\ hpc[b] \in PastGetNli
        /\ At(a, "contradiction") # {}
        /\ At(b, "contradiction") # {}

===========================================================================
